---- MODULE Spec2Model ----
(***************************************************************************)
(* PanelLayer (folium/plugins/panel_layer.py): the layer panel compiler.   *)
(* The state is one PanelLayer instance attached to a host map, plus the   *)
(* host's ordered children.  render() is one atomic step (the plugin is    *)
(* single-threaded and synchronous).                                       *)
(***************************************************************************)
EXTENDS Integers, Sequences, FiniteSets, TLC

\* ------------------------------------------------------------------ bounds
MaxChildren == 3     \* children the host map holds at most
MaxRenders  == 2     \* render() calls on the one PanelLayer instance
MaxChanges  == 1     \* host changes (add / remove / show flip) after construction
MaxGroups   == 2     \* group lists / group names / nested icon lists at most
MaxGroupLen == 2     \* layer names per group list at most
MaxIcons    == 2     \* icon names per flat icon list at most

\* ---------------------------------------------------------- Python values
\* A Python value the plugin looks at with isinstance / truthiness: None, a
\* str, or a list.  One record shape for all three keeps them comparable.
PyNone     == [t |-> "None", s |-> "", l |-> <<>>]
PyStr(x)   == [t |-> "str",  s |-> x,  l |-> <<>>]
PyList(xs) == [t |-> "list", s |-> "", l |-> xs]

\* bool(v) for None and lists (the only values the plugin tests for truth).
Truthy(v) == v.t = "list" /\ Len(v.l) > 0

\* len(v) / iteration of v: a list, or the one-character default str ' '.
PyLen(v)  == IF v.t = "list" THEN Len(v.l) ELSE 1
PyIter(v) == IF v.t = "list" THEN v.l ELSE <<v>>

\* Sequences over S of length lo..hi.
SeqsOf(S, lo, hi) == UNION {[1..n -> S] : n \in lo..hi}

\* ------------------------------------------------------------ OrderedDict
\* An OrderedDict is the sequence of its items [k, v] in insertion order.
ODHas(d, key)  == \E i \in 1..Len(d) : d[i].k = key
ODGet(d, key)  == d[CHOOSE i \in 1..Len(d) : d[i].k = key].v
\* d[key] = val: a present key keeps its position, a new key goes last.
ODSet(d, key, val) ==
    IF ODHas(d, key)
    THEN [i \in 1..Len(d) |-> IF d[i].k = key THEN [k |-> key, v |-> val] ELSE d[i]]
    ELSE Append(d, [k |-> key, v |-> val])
\* del d[key]
ODDel(d, key)  == SelectSeq(d, LAMBDA e : e.k # key)
ODKeys(d)      == [i \in 1..Len(d) |-> d[i].k]
ODValues(d)    == [i \in 1..Len(d) |-> d[i].v]
InSeq(x, s)    == \E i \in 1..Len(s) : s[i] = x

\* ------------------------------------------------------- the host's layers
\* The objects that may be children of the map; the id is what get_name()
\* returns.  Display names are unique within each kind; base layer tile_b
\* and overlay geo_b share the display name "B".  marker is a child that
\* never appears in the panel (control is off).
LayerIds == {"tile_a", "tile_b", "geo_b", "geo_c", "geo_d", "marker"}

layer_name ==
    [r \in LayerIds |->
        CASE r = "tile_a" -> "A" [] r = "tile_b" -> "B" [] r = "geo_b" -> "B"
          [] r = "geo_c"  -> "C" [] r = "geo_d"  -> "D" [] r = "marker" -> "M"]
overlay   == [r \in LayerIds |-> r \in {"geo_b", "geo_c", "geo_d", "marker"}]
control   == [r \in LayerIds |-> r # "marker"]
is_layer  == [r \in LayerIds |-> TRUE]

\* A child as the scan sees it: its reference and its show flag.  show is
\* read for overlays only, so it is drawn for them alone.
Shows(r) == IF overlay[r] /\ control[r] THEN BOOLEAN ELSE {TRUE}
Child(r, sh) == [ref |-> r, show |-> sh]
Refs(ch) == {ch[i].ref : i \in 1..Len(ch)}

VARIABLES
    children,          \* self._parent._children.values(), registration order
    only_raster, only_vector, group_by, data_group_name, icons,
    base_layers, overlayers, layers_untoggle,
    overlayers_data,   \* <<>> until a render has assigned it
    raised,            \* "unrendered", or how the last render() ended
    renders, changes,  \* counters the bounds cap
    host_changed,      \* the host changed since the last render()
    args               \* the arguments __init__ was given

vars == <<children, only_raster, only_vector, group_by, data_group_name, icons,
          base_layers, overlayers, layers_untoggle, overlayers_data, raised,
          renders, changes, host_changed, args>>

\* The instance, as the record the methods below work on.
Me == [only_raster |-> only_raster, only_vector |-> only_vector,
       group_by |-> group_by, data_group_name |-> data_group_name,
       icons |-> icons, base_layers |-> base_layers, overlayers |-> overlayers,
       layers_untoggle |-> layers_untoggle, overlayers_data |-> overlayers_data,
       raised |-> raised]

\* -------------------------------------------------------------- __init__
prefix == "fa"       \* prefix="fa", stripped
color  == "black"    \* color="black"

\* PanelLayer(...): the fields after construction.
\* group_by: falsy -> []; a list whose first element is a list is kept, any
\* other list is wrapped as the single group.  data_group_name: falsy -> ' '.
PanelLayer(raw_data_group_name, raw_only_raster, raw_only_vector, raw_group_by, raw_icons) ==
    [only_raster     |-> raw_only_raster,
     only_vector     |-> raw_only_vector,
     group_by        |-> IF ~Truthy(raw_group_by) THEN PyList(<<>>)
                         ELSE IF raw_group_by.l[1].t = "list" THEN raw_group_by
                         ELSE PyList(<<raw_group_by>>),
     data_group_name |-> IF Truthy(raw_data_group_name) THEN raw_data_group_name
                         ELSE PyStr(" "),
     icons           |-> raw_icons,
     base_layers     |-> <<>>,
     overlayers      |-> <<>>,
     layers_untoggle |-> <<>>,
     overlayers_data |-> <<>>,
     raised          |-> "unrendered"]

\* -------------------------------------------------------------- helpers
\* '<i class="{prefix} {name}" style="color:{color};"></i>'
_icon_name(name) ==
    <<PyStr("<i class=\""), PyStr(prefix), PyStr(" "), name,
      PyStr("\" style=\"color:"), PyStr(color), PyStr(";\"></i>")>>

NoIcon == PyStr("None ")

\* "None " * _diff with _diff a bool: the str repeated int(_diff) times.
StrTimesBool(x, b) == IF b THEN x ELSE PyStr("")

\* _check_icons(icons, layers, index): what it returns (ret), how it ends
\* (raised), and self.icons afterwards (the flat branch appends in place and
\* returns the same list object).
_check_icons(icons_, layers, index) ==
    IF icons_.t = "None"
    THEN [raised |-> "none", ret |-> [i \in 1..Len(layers) |-> NoIcon], icons |-> icons_]
    ELSE IF index = -1
    THEN LET _diff == Len(icons_.l) < Len(layers)
         IN  IF _diff
             THEN LET appended == Append(icons_.l, StrTimesBool(NoIcon, _diff))
                  IN  [raised |-> "none", ret |-> appended, icons |-> PyList(appended)]
             ELSE [raised |-> "none", ret |-> icons_.l, icons |-> icons_]
    ELSE IF Len(icons_.l) = 0
    THEN [raised |-> "IndexError", ret |-> <<>>, icons |-> icons_]      \* icons[0]
    ELSE IF icons_.l[1].t = "list"
    THEN IF index + 1 <= Len(icons_.l)
         THEN [raised |-> "none", ret |-> PyIter(icons_.l[index + 1]), icons |-> icons_]
         ELSE [raised |-> "none", ret |-> [i \in 1..Len(layers) |-> NoIcon], icons |-> icons_]
    ELSE [raised |-> "TypeError", ret |-> <<>>, icons |-> icons_]       \* raise "..."

\* _create_layer(layer, icon); self.overlayers[layer] raises KeyError for a
\* name that is no key, which the callers test with ODHas before using this.
_create_layer(self, layer, icon) ==
    [name |-> layer, icon |-> _icon_name(icon), layer |-> ODGet(self.overlayers, layer)]

\* _remove_duplicated_untoggled(layer_type): _layers is the snapshot of the
\* values taken before the loop; del raises KeyError for a missing key.
RECURSIVE remove_from(_, _, _, _)
remove_from(self, layer_type, _layers, i) ==
    IF i > Len(layer_type) \/ self.raised # "none" THEN self
    ELSE IF InSeq(layer_type[i].v, _layers)
    THEN IF ODHas(self.layers_untoggle, layer_type[i].k)
         THEN remove_from([self EXCEPT !.layers_untoggle = ODDel(@, layer_type[i].k)],
                          layer_type, _layers, i + 1)
         ELSE [self EXCEPT !.raised = "KeyError"]
    ELSE remove_from(self, layer_type, _layers, i + 1)

\* A variant that matches the entries to delete by key, not by value.
remove_by_key(self, layer_type) ==
    [self EXCEPT !.layers_untoggle =
        SelectSeq(@, LAMBDA e : ~ODHas(layer_type, e.k))]

_remove_duplicated_untoggled(self, layer_type) ==
    remove_from(self, layer_type, ODValues(self.layers_untoggle), 1)

\* ---------------------------------------------------------------- render
Min(a, b) == IF a < b THEN a ELSE b

\* The scan loop over self._parent._children.values(), from child i on.
RECURSIVE scan(_, _, _)
scan(self, ch, i) ==
    IF i > Len(ch) THEN self
    ELSE LET item == ch[i]
             key  == layer_name[item.ref]
         IN  IF ~is_layer[item.ref] \/ ~control[item.ref]
             THEN scan(self, ch, i + 1)
             ELSE IF ~overlay[item.ref]
             THEN LET b == ODSet(self.base_layers, key, item.ref)
                      u == IF Len(b) > 1
                           THEN ODSet(self.layers_untoggle, key, item.ref)
                           ELSE self.layers_untoggle
                  IN  scan([self EXCEPT !.base_layers = b, !.layers_untoggle = u],
                           ch, i + 1)
             ELSE LET o == ODSet(self.overlayers, key, item.ref)
                      u == IF ~item.show
                           THEN ODSet(self.layers_untoggle, key, item.ref)
                           ELSE self.layers_untoggle
                  IN  scan([self EXCEPT !.overlayers = o, !.layers_untoggle = u],
                           ch, i + 1)

\* if self.only_raster: ... elif self.only_vector: ...
restrict(self) ==
    IF self.only_raster THEN _remove_duplicated_untoggled(self, self.overlayers)
    ELSE IF self.only_vector THEN _remove_duplicated_untoggled(self, self.base_layers)
    ELSE self

\* for name, icon in zip(names, icons_): ..._create_layer(name, icon), from
\* pair i on; zip stops at the shorter of the two.
RECURSIVE zip_layers(_, _, _, _)
zip_layers(self, names, icons_, i) ==
    IF i > Min(Len(names), Len(icons_)) THEN [raised |-> "none", layers |-> <<>>]
    ELSE IF ~ODHas(self.overlayers, names[i])
    THEN [raised |-> "KeyError", layers |-> <<>>]
    ELSE LET rest == zip_layers(self, names, icons_, i + 1)
         IN  [raised |-> rest.raised,
              layers |-> IF rest.raised = "none"
                         THEN <<_create_layer(self, names[i], icons_[i])>> \o rest.layers
                         ELSE <<>>]

\* Simple panel: one panel, no groups.
simple_panel(self) ==
    LET ci == _check_icons(self.icons, self.overlayers, -1)
        z  == zip_layers(self, ODKeys(self.overlayers), ci.ret, 1)
    IN  [self EXCEPT !.icons = ci.icons,
                     !.raised = z.raised,
                     !.overlayers_data =
                         IF z.raised = "none"
                         THEN <<[group |-> self.data_group_name, layers |-> z.layers]>>
                         ELSE @]

StrsOf(pl) == [i \in 1..Len(pl.l) |-> pl.l[i].s]

\* for group, name in enumerate(self.data_group_name): ..., from index group on.
RECURSIVE group_loop(_, _)
group_loop(self, group) ==
    IF group >= PyLen(self.data_group_name) THEN [raised |-> "none", groups |-> <<>>]
    ELSE LET name       == PyIter(self.data_group_name)[group + 1]
             layer_name_ == self.group_by.l[group + 1]
             ci         == _check_icons(self.icons, layer_name_.l, group)
             z          == zip_layers(self, StrsOf(layer_name_), ci.ret, 1)
         IN  IF ci.raised # "none" THEN [raised |-> ci.raised, groups |-> <<>>]
             ELSE IF z.raised # "none" THEN [raised |-> z.raised, groups |-> <<>>]
             ELSE LET rest == group_loop(self, group + 1)
                  IN  [raised |-> rest.raised,
                       groups |-> IF rest.raised = "none"
                                  THEN <<[group |-> name, layers |-> z.layers]>> \o rest.groups
                                  ELSE <<>>]

\* A variant whose length check only rejects too few group lists.
grouped_panel_one_sided(self) ==
    IF Len(self.group_by.l) < PyLen(self.data_group_name)
    THEN [self EXCEPT !.raised = "AssertionError"]
    ELSE LET g == group_loop(self, 0)
         IN  [self EXCEPT !.raised = g.raised,
                          !.overlayers_data = IF g.raised = "none" THEN g.groups ELSE @]

\* Multiple panel with or without groups and single panel with groups.
grouped_panel(self) ==
    IF Len(self.group_by.l) # PyLen(self.data_group_name)
    THEN [self EXCEPT !.raised = "AssertionError"]
    ELSE LET g == group_loop(self, 0)
         IN  [self EXCEPT !.raised = g.raised,
                          !.overlayers_data = IF g.raised = "none" THEN g.groups ELSE @]

\* render(): the instance afterwards; raised says how the call ended.
render(self, ch) ==
    LET scanned    == scan([self EXCEPT !.raised = "none"], ch, 1)
        restricted == restrict(scanned)
    IN  IF restricted.raised # "none" THEN restricted
        ELSE IF ~Truthy(restricted.group_by) THEN simple_panel(restricted)
        ELSE grouped_panel(restricted)

\* --------------------------------------------------------------- actions
Render ==
    /\ renders < MaxRenders
    /\ LET r == render(Me, children)
       IN  /\ icons' = r.icons
           /\ base_layers' = r.base_layers
           /\ overlayers' = r.overlayers
           /\ layers_untoggle' = r.layers_untoggle
           /\ overlayers_data' = r.overlayers_data
           /\ raised' = r.raised
    /\ renders' = renders + 1
    /\ host_changed' = FALSE
    /\ UNCHANGED <<children, only_raster, only_vector, group_by, data_group_name,
                   changes, args>>

HostStep ==
    /\ changes < MaxChanges
    /\ changes' = changes + 1
    /\ host_changed' = TRUE
    /\ UNCHANGED <<only_raster, only_vector, group_by, data_group_name, icons,
                   base_layers, overlayers, layers_untoggle, overlayers_data,
                   raised, renders, args>>

\* layer.add_to(map): a new child goes last.
AddLayer ==
    /\ Len(children) < MaxChildren
    /\ \E r \in LayerIds \ Refs(children) : \E sh \in Shows(r) :
           children' = Append(children, Child(r, sh))
    /\ HostStep

\* A child is taken off the map.
RemoveLayer ==
    /\ \E i \in 1..Len(children) :
           children' = [j \in 1..(Len(children) - 1) |->
                           IF j < i THEN children[j] ELSE children[j + 1]]
    /\ HostStep

\* An overlay's show flag is flipped.
SetShow ==
    /\ \E i \in 1..Len(children) :
           /\ Shows(children[i].ref) = BOOLEAN
           /\ children' = [children EXCEPT ![i].show = ~@]
    /\ HostStep

\* ------------------------------------------------------------------ Init
GroupLayerNames == {"C", "Z"}      \* "Z" is no layer's display name
IconNames       == {"star"}

\* group_by arguments over the names S: None, a flat list, a list of lists.
FlatNames(S)   == {PyList(x) : x \in SeqsOf({PyStr(n) : n \in S}, 0, MaxGroupLen)}
GroupByOver(S) == {PyNone} \cup FlatNames(S)
                      \cup {PyList(x) : x \in SeqsOf(FlatNames(S), 1, MaxGroups)}
GroupByArgs    == GroupByOver(GroupLayerNames)
GroupNameArgs == {PyNone} \cup {PyList(x) : x \in SeqsOf({PyStr("G")}, 0, MaxGroups)}
FlatIcons   == {PyList(x) : x \in SeqsOf({PyStr(n) : n \in IconNames}, 0, MaxIcons)}
IconArgs    == {PyNone} \cup FlatIcons \cup {PyList(x) : x \in SeqsOf(FlatIcons, 1, MaxGroups)}

\* Child lists: distinct children, at most MaxChildren of them.
ChildLists(ids) ==
    {ch \in SeqsOf({Child(r, sh) : r \in ids, sh \in BOOLEAN}, 0, MaxChildren) :
        /\ \A i, j \in 1..Len(ch) : i # j => ch[i].ref # ch[j].ref
        /\ \A i \in 1..Len(ch) : ch[i].show \in Shows(ch[i].ref)}

Construct(ch, dgn, oraster, ovector, gb, ic) ==
    LET self == PanelLayer(dgn, oraster, ovector, gb, ic)
    IN  /\ children = ch
        /\ only_raster = self.only_raster
        /\ only_vector = self.only_vector
        /\ group_by = self.group_by
        /\ data_group_name = self.data_group_name
        /\ icons = self.icons
        /\ base_layers = self.base_layers
        /\ overlayers = self.overlayers
        /\ layers_untoggle = self.layers_untoggle
        /\ overlayers_data = self.overlayers_data
        /\ raised = self.raised
        /\ renders = 0
        /\ changes = 0
        /\ host_changed = FALSE
        /\ args = [data_group_name |-> dgn, group_by |-> gb, icons |-> ic]

\* A panel without groups on any map, in any of the restriction modes.
InitPanel ==
    \E ch \in ChildLists(LayerIds), oraster \in BOOLEAN, ovector \in BOOLEAN,
       ic \in {PyNone} \cup FlatIcons :
        Construct(ch, PyNone, oraster, ovector, PyNone, ic)

\* Any grouping, group-name and icon arguments on a map of overlay "C".
InitGrouped ==
    \E ch \in ChildLists({"geo_c"}), dgn \in GroupNameArgs, gb \in GroupByArgs,
       ic \in IconArgs :
        Construct(ch, dgn, FALSE, FALSE, gb, ic)

Init == InitPanel \/ InitGrouped

Next == Render \/ AddLayer \/ RemoveLayer \/ SetShow

Spec == Init /\ [][Next]_vars

\* The raster-only panels among InitPanel, without icons.
InitRaster ==
    \E ch \in ChildLists(LayerIds), ovector \in BOOLEAN :
        Construct(ch, PyNone, TRUE, ovector, PyNone, PyNone)

SpecRaster == InitRaster /\ [][Next]_vars

\* The grouping and group-name arguments among InitGrouped, with every
\* listed name registered and without icons: only the counts vary.
InitCounts ==
    \E ch \in ChildLists({"geo_c"}), dgn \in GroupNameArgs, gb \in GroupByOver({"C"}) :
        Construct(ch, dgn, FALSE, FALSE, gb, PyNone)

SpecCounts == InitCounts /\ [][Next]_vars

\* ================================================================ claims
\* The state right after a render() call, and after one that returned.
AfterRender == renders > 0 /\ ~host_changed
Rendered    == AfterRender /\ raised = "none"
IsRender    == renders' = renders + 1

\* The controllable children of each kind, as the scan classifies them.
BaseChildren    == {i \in 1..Len(children) :
                       control[children[i].ref] /\ ~overlay[children[i].ref]}
OverlayChildren == {i \in 1..Len(children) :
                       control[children[i].ref] /\ overlay[children[i].ref]}
\* The items of an OrderedDict that refer to base layers / overlay layers.
BaseEntries(d)    == SelectSeq(d, LAMBDA e : ~overlay[e.v])
OverlayEntries(d) == SelectSeq(d, LAMBDA e : overlay[e.v])
Unrestricted == ~only_raster /\ ~only_vector
\* A new instance built from the same arguments.
Fresh == PanelLayer(args.data_group_name, only_raster, only_vector,
                    args.group_by, args.icons)
EntryNames(group) == [i \in 1..Len(group.layers) |-> group.layers[i].name]

\* C1: after render the number of suppression entries that refer to base
\* layers is max(0, baseLayerCount - 1).  Stated for the unrestricted panel
\* (neither raster-only nor vector-only), where no entry is ever removed.
C1_BaseSuppressionCount ==
    (Rendered /\ Unrestricted) =>
        Len(BaseEntries(layers_untoggle)) =
            (IF Cardinality(BaseChildren) > 0 THEN Cardinality(BaseChildren) - 1 ELSE 0)

\* C2: a second render() on the same instance with unchanged layers and
\* configuration yields the same panel groups and the same suppression list.
C2_RerenderIdentical ==
    [][(Rendered /\ IsRender) =>
          /\ raised' = "none"
          /\ overlayers_data' = overlayers_data
          /\ layers_untoggle' = layers_untoggle]_vars

\* C3: after each render() the base mapping, overlay mapping, suppression
\* set and panel groups equal those a new instance with the same
\* configuration produces from the current children.
C3_RecomputedFromScratch ==
    AfterRender =>
        LET f == render(Fresh, children)
        IN  /\ base_layers = f.base_layers
            /\ overlayers = f.overlayers
            /\ layers_untoggle = f.layers_untoggle
            /\ overlayers_data = f.overlayers_data

\* C4: when a render() step hands the icon assigner a flat list of M >= 1
\* icons and N > M layers, the list it returns has length N, starts with the
\* M supplied icons and ends with N-M "no icon" sentinels.
C4_IconPadding ==
    [][LET M   == Len(icons.l)
           N   == Len(overlayers')
           ret == _check_icons(icons, overlayers', -1).ret
       IN  (/\ IsRender
            /\ ~Truthy(group_by)
            /\ icons.t = "list" /\ (\A i \in 1..M : icons.l[i].t = "str")
            /\ 1 <= M /\ M < N) =>
               /\ Len(ret) = N
               /\ \A i \in 1..M : ret[i] = icons.l[i]
               /\ \A i \in (M + 1)..Len(ret) : ret[i] = NoIcon]_vars

\* The grouping arguments as declared to __init__: how many group lists
\* (a flat list of names is one group) and how many group names.
GroupListCount ==
    IF ~Truthy(args.group_by) THEN 0
    ELSE IF args.group_by.l[1].t = "list" THEN Len(args.group_by.l) ELSE 1
GroupNameCount ==
    IF args.data_group_name.t = "list" THEN Len(args.data_group_name.l) ELSE 0

\* C5 as claimed: whenever a grouping argument is given and the number of
\* group lists differs from the number of declared group names (either may
\* be zero), render() fails on the group-count check and emits no panel.
C5_Original ==
    (renders > 0 /\ args.group_by.t = "list" /\ GroupListCount # GroupNameCount) =>
        raised = "AssertionError" /\ overlayers_data = <<>>

\* C5 as amended: whenever at least one group list is given and the number
\* of group lists differs from the number of group names in effect (the
\* declared names, or the single default name when none is declared),
\* render() fails on the group-count check and emits no panel.
C5_GroupCountMismatch ==
    (renders > 0 /\ GroupListCount >= 1 /\
     GroupListCount # (IF GroupNameCount = 0 THEN 1 ELSE GroupNameCount)) =>
        raised = "AssertionError" /\ overlayers_data = <<>>

\* C5 witness: a render() of a panel declared with two group lists and one
\* group name has ended on the group-count check.
C5_Witness ==
    /\ AfterRender
    /\ GroupListCount = 2 /\ GroupNameCount = 1
    /\ raised = "AssertionError" /\ overlayers_data = <<>>

\* C6: a render() step in raster-only mode leaves no suppression entry that
\* refers to an overlay layer, and leaves exactly the base-layer entries
\* (names, references, order) the same call leaves without the restriction.
C6_RasterOnlyFrame ==
    [][(IsRender /\ only_raster) =>
          LET free == render([Me EXCEPT !.only_raster = FALSE, !.only_vector = FALSE],
                             children)
          IN  /\ OverlayEntries(layers_untoggle') = <<>>
              /\ BaseEntries(layers_untoggle') = BaseEntries(free.layers_untoggle)]_vars

\* C6 witness: a raster-only render() of a map with a hidden overlay and two
\* base layers has left a base-layer entry and no overlay entry.
C6_Witness ==
    /\ AfterRender /\ only_raster
    /\ \E i \in OverlayChildren : ~children[i].show
    /\ Cardinality(BaseChildren) >= 2
    /\ BaseEntries(layers_untoggle) # <<>>
    /\ OverlayEntries(layers_untoggle) = <<>>

\* C7: after render every overlay layer with show off has its display name
\* in the suppression set, and with exactly one base layer present no overlay
\* layer with show on has.  Stated outside raster-only mode, which removes
\* the overlay entries on purpose.
C7_OverlaySuppression ==
    (Rendered /\ ~only_raster) =>
        /\ \A i \in OverlayChildren :
               ~children[i].show => ODHas(layers_untoggle, layer_name[children[i].ref])
        /\ Cardinality(BaseChildren) = 1 =>
               \A i \in OverlayChildren :
                   children[i].show => ~ODHas(layers_untoggle, layer_name[children[i].ref])

\* C8: whenever render() succeeds, each emitted group holds exactly one
\* entry per layer of that group, in order: the overlay mapping's layers for
\* the synthetic group, the group list's names for a declared group.
C8_OneEntryPerLayer ==
    Rendered =>
        IF ~Truthy(group_by)
        THEN /\ Len(overlayers_data) = 1
             /\ EntryNames(overlayers_data[1]) = ODKeys(overlayers)
        ELSE /\ Len(overlayers_data) = Len(group_by.l)
             /\ \A g \in 1..Len(overlayers_data) :
                    EntryNames(overlayers_data[g]) = StrsOf(group_by.l[g])

\* The display names of the overlay layers now on the map.
OverlayNames == {layer_name[children[i].ref] : i \in OverlayChildren}
OverlayRef(n) == children[CHOOSE i \in OverlayChildren :
                              layer_name[children[i].ref] = n].ref

\* C9: with group_by a flat list of N registered overlay names, one declared
\* group name and icons a flat list of N icon names, render() succeeds with
\* one group whose i-th entry is the i-th layer with the i-th icon's markup.
C9_FlatGroupFlatIcons ==
    (/\ AfterRender
     /\ Truthy(args.group_by) /\ args.group_by.l[1].t = "str"
     /\ \A i \in 1..Len(args.group_by.l) : args.group_by.l[i].s \in OverlayNames
     /\ GroupNameCount = 1
     /\ args.icons.t = "list" /\ Len(args.icons.l) = Len(args.group_by.l)
     /\ \A i \in 1..Len(args.icons.l) : args.icons.l[i].t = "str") =>
        /\ raised = "none"
        /\ Len(overlayers_data) = 1
        /\ Len(overlayers_data[1].layers) = Len(args.group_by.l)
        /\ \A i \in 1..Len(args.group_by.l) :
               overlayers_data[1].layers[i] =
                   [name  |-> args.group_by.l[i].s,
                    icon  |-> _icon_name(args.icons.l[i]),
                    layer |-> OverlayRef(args.group_by.l[i].s)]

\* C10: in grouped mode, if some name of some group list is not the display
\* name of an overlay layer on the map, render() fails, whatever the icons.
C10_UnknownNameFails ==
    (/\ AfterRender
     /\ Truthy(group_by)
     /\ \E g \in 1..Len(group_by.l) : \E i \in 1..Len(group_by.l[g].l) :
            group_by.l[g].l[i].s \notin OverlayNames) =>
        raised # "none"
====
